---- MODULE Spec2Model ----
(***************************************************************************)
(* A model of verify_case.py, the integrity verifier of a murder-mystery   *)
(* case document: the raw-text duplicate-key scanner, the section          *)
(* validators and validate_case, the run that calls them in order.         *)
(*                                                                         *)
(* A text is a sequence of lines, a line a sequence of one-character       *)
(* strings; the scanner is modelled on those characters.  A parsed         *)
(* document is a record; the validators are operators on it that return    *)
(* the messages they record.                                               *)
(***************************************************************************)
EXTENDS Integers, Sequences, FiniteSets, TLC

VARIABLES
    text,         \* scanner: the lines read so far, as written by the author
    scope_stack,  \* scanner: check_duplicate_keys_raw's scope_stack
    yctx,         \* the open block collections of the text read so far
    pend,         \* column of a key whose value is still open, or NoPend
    expected,     \* the sibling keys repeated in one mapping block so far
    data,         \* the parsed document
    fs,           \* the asset paths that exist on the filesystem
    pc,           \* validate_case: the next pass to run
    run,          \* which run of the verifier this is (1 or 2)
    errors,       \* Result.errors
    warnings,     \* Result.warnings
    rooms,        \* validate_case: rooms, as returned by check_map
    sol,          \* validate_case: what check_suspects_and_solution returned
    prev          \* the messages of the first run, kept for the second

vars == <<text, scope_stack, yctx, pend, expected, data, fs, pc, run,
          errors, warnings, rooms, sol, prev>>

(***************************************************************************)
(* Bounds of the model.                                                    *)
(***************************************************************************)
MaxLines == 4
MaxIndent == 2
MaxRooms == 3
MaxEdges == 3
MaxSuspects == 2
MaxReq == 2

(***************************************************************************)
(* Characters and strings.                                                 *)
(***************************************************************************)
Spaces(n) == [i \in 1..n |-> " "]

RECURSIVE LStrip(_)
LStrip(s) ==
    IF s # <<>> /\ Head(s) = " " THEN LStrip(Tail(s)) ELSE s

RECURSIVE RStrip(_)
RStrip(s) ==
    IF s # <<>> /\ s[Len(s)] = " " THEN RStrip(SubSeq(s, 1, Len(s) - 1)) ELSE s

Strip(s) == RStrip(LStrip(s))

RECURSIVE LStripChars(_, _)
LStripChars(s, cs) ==
    IF s # <<>> /\ Head(s) \in cs THEN LStripChars(Tail(s), cs) ELSE s

RECURSIVE RStripChars(_, _)
RStripChars(s, cs) ==
    IF s # <<>> /\ s[Len(s)] \in cs
    THEN RStripChars(SubSeq(s, 1, Len(s) - 1), cs)
    ELSE s

StripChars(s, cs) == RStripChars(LStripChars(s, cs), cs)

StartsWith(s, p) == Len(s) >= Len(p) /\ SubSeq(s, 1, Len(p)) = p

EndsWith(s, p) ==
    Len(s) >= Len(p) /\ SubSeq(s, Len(s) - Len(p) + 1, Len(s)) = p

HasChar(s, c) == \E i \in 1..Len(s) : s[i] = c

HasSub(s, p) ==
    \E i \in 1..(Len(s) - Len(p) + 1) : SubSeq(s, i, i + Len(p) - 1) = p

\* s.split(c)[0]: the text before the first c (all of s when there is none)
SplitFirst(s, c) ==
    IF HasChar(s, c)
    THEN LET i == CHOOSE j \in 1..Len(s) :
                      s[j] = c /\ \A k \in 1..(j - 1) : s[k] # c
         IN  SubSeq(s, 1, i - 1)
    ELSE s

Quotes == {"'", "\""}

\* re.match(r"""^(['"])(.*?)\1\s*:""", stripped): the positions j of a closing
\* quote (the same as the opening one) followed by blanks and a colon
QuotedEnds(s) ==
    IF s # <<>> /\ s[1] \in Quotes
    THEN {j \in 2..Len(s) :
              /\ s[j] = s[1]
              /\ StartsWith(LStrip(SubSeq(s, j + 1, Len(s))), <<":">>)}
    ELSE {}

Min(S) == CHOOSE x \in S : \A y \in S : x <= y

\* lines 103-109: the key of a line that holds a colon
ExtractKey(stripped) ==
    IF QuotedEnds(stripped) # {}
    THEN SubSeq(stripped, 2, Min(QuotedEnds(stripped)) - 1)
    ELSE StripChars(Strip(SplitFirst(stripped, ":")), Quotes)

\* line 110 without its second test: only an empty key is skipped
KeyIgnoredIfEmpty(key) == key = <<>>

\* line 110: if not key or key.startswith('{'): continue
KeyIgnored(key) == key = <<>> \/ key[1] = "{"

(***************************************************************************)
(* check_duplicate_keys_raw, one iteration of its loop over the lines.     *)
(***************************************************************************)
RootScope == [indent |-> -1, is_list |-> FALSE, seen |-> {}]

\* the pop loop with > in place of >=
RECURSIVE PopScopesDeeper(_, _)
PopScopesDeeper(stack, indent) ==
    IF Len(stack) > 1 /\ stack[Len(stack)].indent > indent
    THEN PopScopesDeeper(SubSeq(stack, 1, Len(stack) - 1), indent)
    ELSE stack

\* while len(scope_stack) > 1 and scope_stack[-1][0] >= indent: pop
RECURSIVE PopScopes(_, _)
PopScopes(stack, indent) ==
    IF Len(stack) > 1 /\ stack[Len(stack)].indent >= indent
    THEN PopScopes(SubSeq(stack, 1, Len(stack) - 1), indent)
    ELSE stack

SeenHas(seen, key) == \E p \in seen : p[1] = key

SeenAt(seen, key) == (CHOOSE p \in seen : p[1] = key)[2]

DupKeyMsg(lineno, key, first) ==
    [kind |-> "DuplicateKey", args |-> <<lineno, key, first>>]

\* line 128: the key opens a nested mapping
OpensNested(stripped) ==
    \/ EndsWith(RStrip(stripped), <<":">>)
    \/ (~HasSub(stripped, <<":", " ">>) /\ EndsWith(stripped, <<":">>))

\* lines 100-129, for a line whose list marker (if any) was handled
ScanKey(stack, errs, stripped, indent, lineno) ==
    IF ~HasChar(stripped, ":")
    THEN [stack |-> stack, errs |-> errs]
    ELSE LET key == ExtractKey(stripped) IN
         IF KeyIgnored(key)
         THEN [stack |-> stack, errs |-> errs]
         ELSE LET popped == PopScopes(stack, indent)
                  top == Len(popped)
                  cur == popped[top].seen
                  dup == SeenHas(cur, key)
                  errs2 == IF dup
                           THEN Append(errs, DupKeyMsg(lineno, key, SeenAt(cur, key)))
                           ELSE errs
                  stack2 == IF dup
                            THEN popped
                            ELSE [popped EXCEPT ![top].seen = cur \cup {<<key, lineno>>}]
                  stack3 == IF OpensNested(stripped)
                            THEN Append(stack2, [indent |-> indent + 1,
                                                 is_list |-> FALSE, seen |-> {}])
                            ELSE stack2
              IN  [stack |-> stack3, errs |-> errs2]

\* lines 100-117: the scope in which the key of a line is looked up, and the
\* indent the key is looked up with; found is FALSE for a line without a key
LookupKey(stack, stripped, indent) ==
    IF ~HasChar(stripped, ":") \/ KeyIgnored(ExtractKey(stripped))
    THEN [found |-> FALSE, scopes |-> <<>>, indent |-> indent]
    ELSE [found |-> TRUE, scopes |-> PopScopes(stack, indent), indent |-> indent]

\* lines 79-117: the lookup of the body of the loop
Lookup(stack, raw_line) ==
    LET stripped == LStrip(raw_line)
        indent == Len(raw_line) - Len(stripped)
    IN  IF stripped = <<>> \/ StartsWith(stripped, <<"#">>)
        THEN [found |-> FALSE, scopes |-> <<>>, indent |-> indent]
        ELSE IF StartsWith(stripped, <<"-", " ">>)
        THEN LET stack1 == Append(PopScopes(stack, indent),
                                  [indent |-> indent, is_list |-> TRUE, seen |-> {}])
                 rest == LStrip(SubSeq(stripped, 3, Len(stripped)))
             IN  IF rest = <<>>
                 THEN [found |-> FALSE, scopes |-> <<>>, indent |-> indent]
                 ELSE LookupKey(stack1, rest, indent + 2)
        ELSE LookupKey(stack, stripped, indent)

\* lines 79-129: the body of the loop, for line number lineno
ScanLine(stack, errs, raw_line, lineno) ==
    LET stripped == LStrip(raw_line)
        indent == Len(raw_line) - Len(stripped)
    IN  IF stripped = <<>> \/ StartsWith(stripped, <<"#">>)
        THEN [stack |-> stack, errs |-> errs]
        ELSE IF StartsWith(stripped, <<"-", " ">>)
        THEN LET stack1 == Append(PopScopes(stack, indent),
                                  [indent |-> indent, is_list |-> TRUE, seen |-> {}])
                 rest == LStrip(SubSeq(stripped, 3, Len(stripped)))
             IN  IF rest = <<>> \/ ~HasChar(rest, ":")
                 THEN [stack |-> stack1, errs |-> errs]
                 ELSE ScanKey(stack1, errs, rest, indent + 2, lineno)
        ELSE ScanKey(stack, errs, stripped, indent, lineno)

\* check_duplicate_keys_raw: the loop over text.splitlines()
RECURSIVE ScanFrom(_, _, _, _)
ScanFrom(stack, errs, lines, lineno) ==
    IF lineno > Len(lines)
    THEN errs
    ELSE LET s == ScanLine(stack, errs, lines[lineno], lineno)
         IN  ScanFrom(s.stack, s.errs, lines, lineno + 1)

check_duplicate_keys_raw(lines) == ScanFrom(<<RootScope>>, <<>>, lines, 1)

(***************************************************************************)
(* The lines of a text.  An author writes a line as a key with a value, a  *)
(* list item or a comment, at some column; Render is the line's            *)
(* characters, which is all the scanner sees.                              *)
(***************************************************************************)
KeyNames == {"a", "b"}

Indents == 0..MaxIndent

LineOf(ind, dash, kind, key, quoted, val) ==
    [ind |-> ind, dash |-> dash, kind |-> kind, key |-> key,
     quoted |-> quoted, val |-> val]

\* a: / a: 1 / b: 1 / a: {x: 1} / "a": 1
KeyLines ==
    {LineOf(n, FALSE, "key", "a", FALSE, v) :
        n \in Indents, v \in {"empty", "scalar", "flow"}}
    \cup {LineOf(n, FALSE, "key", "b", FALSE, "scalar") : n \in Indents}
    \cup {LineOf(n, FALSE, "key", "a", TRUE, "scalar") : n \in Indents}

\* - a: / - a: 1 / - x / - {a: 1}
ItemLines ==
    {LineOf(n, TRUE, "key", "a", FALSE, v) :
        n \in Indents, v \in {"empty", "scalar"}}
    \cup {LineOf(n, TRUE, k, "-", FALSE, "none") :
             n \in Indents, k \in {"scalar", "flowitem"}}

\* # c
CommentLines == {LineOf(0, FALSE, "comment", "-", FALSE, "none")}

KeyText(d) == IF d.quoted THEN <<"\"", d.key, "\"">> ELSE <<d.key>>

ValText(d) ==
    CASE d.val = "empty" -> <<>>
      [] d.val = "scalar" -> <<" ", "1">>
      [] d.val = "flow" -> <<" ", "{", "x", ":", " ", "1", "}">>

Body(d) ==
    CASE d.kind = "key" -> KeyText(d) \o <<":">> \o ValText(d)
      [] d.kind = "scalar" -> <<"x">>
      [] d.kind = "flowitem" -> <<"{", "a", ":", " ", "1", "}">>
      [] d.kind = "comment" -> <<"#", " ", "c">>

Render(d) ==
    Spaces(d.ind) \o (IF d.dash THEN <<"-", " ">> ELSE <<>>) \o Body(d)

(***************************************************************************)
(* The block structure of a text the parser accepts: the stack of open     *)
(* block collections (mappings and sequences, each at its column), and the *)
(* column of a key whose value is still open.  A mapping frame remembers   *)
(* the line of the first occurrence of each of its keys.                   *)
(***************************************************************************)
NoPend == -2

TopPend == -1

FrameAt(ctx, type, n) ==
    {i \in 1..Len(ctx) : ctx[i].type = type /\ ctx[i].ind = n}

\* a plain key line at column n opens the mapping of the pending key (the
\* top-level collection is written at column 0) ...
OpensMap(p, n) == IF p = TopPend THEN n = 0 ELSE p # NoPend /\ n > p

\* ... or continues an open mapping at that column
ContinuesMap(ctx, p, n) == ~OpensMap(p, n) /\ FrameAt(ctx, "map", n) # {}

\* a list item at column n opens the sequence of the pending key (a sequence
\* may sit at the column of the key that holds it) ...
OpensSeq(p, n) == IF p = TopPend THEN n = 0 ELSE p # NoPend /\ n >= p

\* ... or continues an open sequence at that column
ContinuesSeq(ctx, p, n) == ~OpensSeq(p, n) /\ FrameAt(ctx, "seq", n) # {}

Accepts(ctx, p, d) ==
    CASE d.kind = "comment" -> TRUE
      [] d.dash -> OpensSeq(p, d.ind) \/ ContinuesSeq(ctx, p, d.ind)
      [] OTHER -> OpensMap(p, d.ind) \/ ContinuesMap(ctx, p, d.ind)

NewMap(n, key, lineno) ==
    [type |-> "map", ind |-> n, first |-> {<<key, lineno>>}]

NewSeq(n) == [type |-> "seq", ind |-> n, first |-> {}]

PendAfter(d, col) == IF d.val = "empty" THEN col ELSE NoPend

\* the structure after an accepted line d, the lineno-th of the text
Structure(ctx, p, exp, d, lineno) ==
    CASE d.kind = "comment" -> [ctx |-> ctx, pend |-> p, exp |-> exp]
      [] d.kind # "comment" /\ d.dash ->
            LET seqs == IF OpensSeq(p, d.ind)
                        THEN Append(ctx, NewSeq(d.ind))
                        ELSE SubSeq(ctx, 1, CHOOSE i \in FrameAt(ctx, "seq", d.ind) : TRUE)
            IN  IF d.kind = "key"
                THEN [ctx |-> Append(seqs, NewMap(d.ind + 2, d.key, lineno)),
                      pend |-> PendAfter(d, d.ind + 2), exp |-> exp]
                ELSE [ctx |-> seqs, pend |-> NoPend, exp |-> exp]
      [] d.kind # "comment" /\ ~d.dash ->
            IF OpensMap(p, d.ind)
            THEN [ctx |-> Append(ctx, NewMap(d.ind, d.key, lineno)),
                  pend |-> PendAfter(d, d.ind), exp |-> exp]
            ELSE LET i == CHOOSE j \in FrameAt(ctx, "map", d.ind) : TRUE
                     kept == SubSeq(ctx, 1, i)
                     known == SeenHas(kept[i].first, d.key)
                 IN  [ctx |-> IF known
                              THEN kept
                              ELSE [kept EXCEPT ![i].first = @ \cup {<<d.key, lineno>>}],
                      pend |-> PendAfter(d, d.ind),
                      exp |-> IF known
                              THEN Append(exp, DupKeyMsg(lineno, <<d.key>>,
                                                         SeenAt(kept[i].first, d.key)))
                              ELSE exp]

(***************************************************************************)
(* The scanner, line by line: the loop of check_duplicate_keys_raw reads   *)
(* the next line of the text and never looks ahead, so the text is drawn   *)
(* one line at a time.                                                     *)
(***************************************************************************)
ReadLine(d) ==
    /\ Len(text) < MaxLines
    /\ Accepts(yctx, pend, d)
    /\ LET lineno == Len(text) + 1
           s == ScanLine(scope_stack, errors, Render(d), lineno)
           y == Structure(yctx, pend, expected, d, lineno)
       IN  /\ text' = Append(text, d)
           /\ scope_stack' = s.stack
           /\ errors' = s.errs
           /\ yctx' = y.ctx
           /\ pend' = y.pend
           /\ expected' = y.exp
    /\ UNCHANGED <<data, fs, pc, run, warnings, rooms, sol, prev>>

ReadKeyLine == \E d \in KeyLines : ReadLine(d)

ReadListItem == \E d \in ItemLines : ReadLine(d)

ReadComment == \E d \in CommentLines : ReadLine(d)

NextScan == ReadKeyLine \/ ReadListItem \/ ReadComment

InitScan ==
    /\ text = <<>>
    /\ scope_stack = <<RootScope>>
    /\ yctx = <<>>
    /\ pend = TopPend
    /\ expected = <<>>
    /\ errors = <<>>
    /\ warnings = <<>>
    /\ data = {}
    /\ fs = {}
    /\ pc = "scan"
    /\ run = 1
    /\ rooms = {}
    /\ sol = {}
    /\ prev = {}

SpecScan == InitScan /\ [][NextScan]_vars

(***************************************************************************)
(* The parsed document.  A mapping of the document is a record here; a key *)
(* that may be missing holds Absent (data.absent names the missing         *)
(* top-level keys), Python's None is the value None.  Every identifier of  *)
(* the model is lower case, so str.lower() leaves it as it is.             *)
(***************************************************************************)
Absent == "<absent>"

None == "None"

\* Python's True and False
True == "True"

False == "False"

\* d.get(key) and d.get(key, default) of a scalar entry
Get(v, default) == IF v = Absent THEN default ELSE v

\* Python's truth value of a scalar entry read with .get()
Truthy(v) == v \notin {Absent, None, "", False}

HasKey(d, k) == k \notin d.absent

Msg(kind, args) == [kind |-> kind, args |-> args]

If(c, m) == IF c THEN <<m>> ELSE <<>>

Range(s) == {s[i] : i \in 1..Len(s)}

RECURSIVE Flatten(_)
Flatten(ss) == IF ss = <<>> THEN <<>> ELSE Head(ss) \o Flatten(Tail(ss))

\* the messages of a loop: those of its body for each item, in order
ForEach(F(_), s) == Flatten([i \in 1..Len(s) |-> F(s[i])])

\* the orders in which a set may be iterated
Orders(S) == {s \in [1..Cardinality(S) -> S] : Range(s) = S}

(***************************************************************************)
(* _dfs_reachable                                                          *)
(***************************************************************************)
\* graph.get(node, [])
AdjGet(adj, id) ==
    IF \E i \in 1..Len(adj) : adj[i].id = id
    THEN adj[CHOOSE i \in 1..Len(adj) : adj[i].id = id].nbrs
    ELSE <<>>

RECURSIVE DfsLoop(_, _, _)
DfsLoop(visited, stack, adj) ==
    IF stack = <<>>
    THEN visited
    ELSE LET node == stack[Len(stack)]
             rest == SubSeq(stack, 1, Len(stack) - 1)
         IN  IF node \in visited
             THEN DfsLoop(visited, rest, adj)
             ELSE DfsLoop(visited \cup {node}, rest \o AdjGet(adj, node), adj)

\* _dfs_reachable stopping at the neighbours of start
dfs_reachableOneStep(start, adj) == {start} \cup Range(AdjGet(adj, start))

dfs_reachable(start, adj) == DfsLoop({}, <<start>>, adj)

(***************************************************************************)
(* check_map                                                               *)
(***************************************************************************)
\* lines 145-157: connects_to of a descriptor, or the bare list
ConnectsOf(room_info) ==
    IF room_info.kind \in {"dict", "list"} THEN room_info.connects ELSE <<>>

MapRooms(d) == IF HasKey(d, "map") THEN {d.map[i].id : i \in 1..Len(d.map)} ELSE {}

\* lines 159-164: adj, in the order of data['map']
MapAdj(d) ==
    IF HasKey(d, "map")
    THEN [i \in 1..Len(d.map) |->
            [id |-> d.map[i].id,
             nbrs |-> SelectSeq(ConnectsOf(d.map[i]), LAMBDA t : t \in MapRooms(d))]]
    ELSE <<>>

\* lines 166-170
OneWayWarnings(adj) ==
    ForEach(LAMBDA a :
                ForEach(LAMBDA target :
                            If(a.id \notin Range(AdjGet(adj, target)),
                               Msg("Map: one-way", <<a.id, target>>)),
                        a.nbrs),
            adj)

\* lines 173-176: rooms - reachable
Isolated(d) ==
    IF MapRooms(d) # {}
    THEN MapRooms(d) \ dfs_reachable(d.map[1].id, MapAdj(d))
    ELSE {}

\* lines 180-183
MurderLocErrors(d) ==
    LET murder_loc == Get(d.murderLocation, None)
    IN  If(Truthy(murder_loc) /\ murder_loc \notin MapRooms(d),
           Msg("Map: murderLocation not found in map rooms", <<murder_loc>>))

\* check_map; isolated_order is the order in which the set isolated is iterated
check_map(d, isolated_order) ==
    IF ~HasKey(d, "map")
    THEN [errs |-> <<Msg("Map: No 'map' key defined", <<>>)>>, warns |-> <<>>,
          rooms |-> {}]
    ELSE [errs |->
              ForEach(LAMBDA room :
                          ForEach(LAMBDA target :
                                      If(target \notin MapRooms(d),
                                         Msg("Map: connects_to non-existent room",
                                             <<room.id, target>>)),
                                  ConnectsOf(room)),
                      d.map)
              \o MurderLocErrors(d),
          warns |->
              OneWayWarnings(MapAdj(d))
              \o ForEach(LAMBDA room_id :
                             <<Msg("Map: unreachable", <<room_id, d.map[1].id>>)>>,
                         isolated_order),
          rooms |-> MapRooms(d)]

(***************************************************************************)
(* check_suspects_and_solution                                             *)
(***************************************************************************)
SuspectIds(d) ==
    IF HasKey(d, "suspects") THEN {d.suspects[i].id : i \in 1..Len(d.suspects)} ELSE {}

Suspects(d) == IF HasKey(d, "suspects") THEN d.suspects ELSE <<>>

SolutionIsDict(d) == ~HasKey(d, "solution") \/ d.solution.kind = "dict"

\* lines 192-196
KillerId(d) ==
    IF ~HasKey(d, "solution") THEN None
    ELSE IF d.solution.kind = "dict" THEN Get(d.solution.killer, None)
    ELSE d.solution.killer

AccompliceId(d) ==
    IF HasKey(d, "solution") /\ d.solution.kind = "dict"
    THEN Get(d.solution.accomplice, "none")
    ELSE "none"

SilentWitnessId(d) ==
    IF HasKey(d, "solution") /\ d.solution.kind = "dict"
    THEN Get(d.solution.silent_witness, "none")
    ELSE "none"

\* lines 198-203 with the killer's test written like the other two
RoleErrorsKillerNone(d) ==
    If(KillerId(d) # "none" /\ KillerId(d) \notin SuspectIds(d),
       Msg("Solution: not found in suspects list", <<"Killer", KillerId(d)>>))
    \o If(AccompliceId(d) # "none" /\ AccompliceId(d) \notin SuspectIds(d),
          Msg("Solution: not found in suspects list", <<"Accomplice", AccompliceId(d)>>))
    \o If(SilentWitnessId(d) # "none" /\ SilentWitnessId(d) \notin SuspectIds(d),
          Msg("Solution: not found in suspects list",
              <<"Silent witness", SilentWitnessId(d)>>))

\* lines 198-203
RoleErrors(d) ==
    If(KillerId(d) \notin SuspectIds(d),
       Msg("Solution: not found in suspects list", <<"Killer", KillerId(d)>>))
    \o If(AccompliceId(d) # "none" /\ AccompliceId(d) \notin SuspectIds(d),
          Msg("Solution: not found in suspects list", <<"Accomplice", AccompliceId(d)>>))
    \o If(SilentWitnessId(d) # "none" /\ SilentWitnessId(d) \notin SuspectIds(d),
          Msg("Solution: not found in suspects list",
              <<"Silent witness", SilentWitnessId(d)>>))

\* lines 216-233 with "is False" in place of "not": a missing flag passes
FlagErrorsIsFalse(suspect, flag, role, role_id) ==
    IF suspect.id = role_id
    THEN If(flag = False, Msg("Suspect: is solution role but flag is not true",
                              <<suspect.id, role>>))
    ELSE If(Truthy(flag), Msg("Suspect: flag is true but is not the solution role",
                              <<suspect.id, role>>))

\* lines 216-233, for one flag and its role
FlagErrors(suspect, flag, role, role_id) ==
    IF suspect.id = role_id
    THEN If(~Truthy(flag), Msg("Suspect: is solution role but flag is not true",
                               <<suspect.id, role>>))
    ELSE If(Truthy(flag), Msg("Suspect: flag is true but is not the solution role",
                              <<suspect.id, role>>))

KnownResistance == {"low", "moderate", "high", "expert"}

\* lines 207-233
SuspectErrors(d, rms, suspect) ==
    If(Truthy(suspect.currentLocation) /\ suspect.currentLocation \notin rms,
       Msg("Suspect: currentLocation not in map", <<suspect.id, suspect.currentLocation>>))
    \o FlagErrors(suspect, suspect.isGuilty, "killer", KillerId(d))
    \o FlagErrors(suspect, suspect.isAccomplice, "accomplice", AccompliceId(d))
    \o FlagErrors(suspect, suspect.isSilentWitness, "silent_witness", SilentWitnessId(d))

\* lines 235-247
SuspectWarnings(suspect) ==
    If(~Truthy(suspect.alibi), Msg("Suspect: Missing alibi field", <<suspect.id>>))
    \o If(suspect.secrets = <<>>, Msg("Suspect: Has no secrets defined", <<suspect.id>>))
    \o If(Truthy(suspect.resistance_level)
             /\ suspect.resistance_level \notin KnownResistance,
          Msg("Suspect: Unrecognised resistance_level",
              <<suspect.id, suspect.resistance_level>>))

check_suspects_and_solution(d, rms) ==
    [errs |-> RoleErrors(d)
              \o ForEach(LAMBDA suspect : SuspectErrors(d, rms, suspect), Suspects(d)),
     warns |-> ForEach(LAMBDA suspect : SuspectWarnings(suspect), Suspects(d)),
     sol |-> [suspect_ids |-> SuspectIds(d), killer_id |-> KillerId(d),
              accomplice_id |-> AccompliceId(d),
              silent_witness_id |-> SilentWitnessId(d)]]

(***************************************************************************)
(* check_schema                                                            *)
(***************************************************************************)
RequiredFields ==
    <<"id", "name", "description", "victim", "murderTime", "murderLocation",
      "evidence", "solution", "suspects", "settings">>

VictimFields == <<"name", "id", "avatar">>

PointFields ==
    <<"question_cost", "search_cost", "correct_deduction_reward", "key_evidence_reward">>

check_schema(d) ==
    [errs |-> ForEach(LAMBDA field :
                          If(~HasKey(d, field),
                             Msg("Schema: Missing required top-level field", <<field>>)),
                      RequiredFields),
     warns |-> (IF HasKey(d, "victim")
                THEN ForEach(LAMBDA vf :
                                 If(d.victim[vf] = Absent,
                                    Msg("Schema: Victim missing recommended field", <<vf>>)),
                             VictimFields)
                ELSE <<>>)
               \o (IF HasKey(d, "point_system")
                   THEN ForEach(LAMBDA pf :
                                    If(pf \notin d.point_system,
                                       Msg("Schema: point_system missing field", <<pf>>)),
                                PointFields)
                   ELSE <<>>)]

(***************************************************************************)
(* check_evidence_ids                                                      *)
(***************************************************************************)
EmptyEvidence ==
    [physical_evidence |-> <<>>, physical_discovery |-> <<>>, digital_logs |-> {},
     footage |-> {}, dna |-> <<>>, all_locations |-> <<>>,
     initial_police_statements |-> {}]

\* data.get('evidence', {})
Evidence(d) == IF HasKey(d, "evidence") THEN d.evidence ELSE EmptyEvidence

PhysEvIds(d) == Range(Evidence(d).physical_evidence)

\* data.get('map', {}).items()
MapItems(d) == IF HasKey(d, "map") THEN d.map ELSE <<>>

\* data.get('murderLocation')
MurderLoc(d) == Get(d.murderLocation, None)

\* lines 267-276
DiscoveryErrors(d, rms) ==
    ForEach(LAMBDA e :
                If(e.room \notin rms,
                   Msg("Evidence: physical_discovery references non-existent room",
                       <<e.room>>))
                \o (IF e.kind # "list"
                    THEN <<Msg("Evidence: physical_discovery must be a list",
                               <<e.room, e.kind>>)>>
                    ELSE ForEach(LAMBDA ev_id :
                                     If(ev_id \notin PhysEvIds(d),
                                        Msg("Evidence: physical_discovery references undeclared evidence",
                                            <<e.room, ev_id>>)),
                                 e.items)),
            Evidence(d).physical_discovery)

\* lines 278-285
InteractableErrors(d) ==
    ForEach(LAMBDA room :
                IF room.kind # "dict"
                THEN <<>>
                ELSE ForEach(LAMBDA item :
                                 If(Truthy(item.evidence_id)
                                        /\ item.evidence_id \notin PhysEvIds(d),
                                    Msg("Map: Interactable evidence_id not in physical_evidence",
                                        <<item.name, room.id, item.evidence_id>>)),
                             room.interactables),
            MapItems(d))

\* lines 288-291
Discoverable(d) ==
    UNION {Range(e.items) : e \in {x \in Range(Evidence(d).physical_discovery) :
                                       x.kind = "list"}}

\* lines 292-294; phys_order is the order in which the set phys_ev_ids is iterated
UndiscoverableWarnings(d, phys_order) ==
    ForEach(LAMBDA ev_id :
                If(ev_id \notin Discoverable(d),
                   Msg("Evidence: declared but not listed in any physical_discovery room",
                       <<ev_id>>)),
            phys_order)

\* lines 296-300
KeyEvidence(d) ==
    IF HasKey(d, "solution") /\ d.solution.kind = "dict"
    THEN d.solution.key_evidence
    ELSE <<>>

KeyEvidenceErrors(d) ==
    ForEach(LAMBDA ev_id :
                If(ev_id \notin PhysEvIds(d),
                   Msg("Solution: key_evidence not declared in physical_evidence", <<ev_id>>)),
            KeyEvidence(d))

\* lines 302-305
LocationErrors(d, rms) ==
    ForEach(LAMBDA loc :
                If(loc \notin rms,
                   Msg("Evidence: all_locations contains non-existent room", <<loc>>)),
            Evidence(d).all_locations)

\* line 310: victim_data.get('name', '').split()[0] raises IndexError on ''
VictimNameRaises(d) == ~HasKey(d, "victim") \/ Get(d.victim.name, "") = ""

\* lines 308-311; a name of the model is one lower-case token
KnownProfiles(d, suspect_ids) ==
    suspect_ids \cup ({"victim", Get(d.victim.id, ""), Get(d.victim.name, "")} \ {""})

\* lines 313-321
DnaErrors(d, rms) ==
    ForEach(LAMBDA e :
                If(e.room \notin rms, Msg("DNA: References non-existent room", <<e.room>>))
                \o If(e.kind # "list",
                      Msg("DNA: Entry must be a list", <<e.room, e.kind>>)),
            Evidence(d).dna)

DnaWarnings(d, suspect_ids) ==
    ForEach(LAMBDA e :
                IF e.kind # "list"
                THEN <<>>
                ELSE ForEach(LAMBDA name :
                                 If(name \notin KnownProfiles(d, suspect_ids),
                                    Msg("DNA: Unknown profile", <<name, e.room>>)),
                             e.items),
            Evidence(d).dna)

\* lines 323-329
KillerDnaWarnings(d, killer_id) ==
    LET killer_dna_rooms ==
            {e.room : e \in {x \in Range(Evidence(d).dna) :
                                 x.kind = "list" /\ killer_id \in Range(x.items)}}
    IN  If(Truthy(MurderLoc(d)) /\ Truthy(killer_id)
               /\ MurderLoc(d) \notin killer_dna_rooms,
           Msg("Evidence: Killer has no DNA at murder location",
               <<killer_id, MurderLoc(d)>>))

check_evidence_ids(d, rms, suspect_ids, killer_id, phys_order) ==
    LET errs1 == DiscoveryErrors(d, rms) \o InteractableErrors(d)
                 \o KeyEvidenceErrors(d) \o LocationErrors(d, rms)
        warns1 == UndiscoverableWarnings(d, phys_order)
    IN  IF VictimNameRaises(d)
        THEN [raised |-> TRUE, errs |-> errs1, warns |-> warns1]
        ELSE [raised |-> FALSE,
              errs |-> errs1 \o DnaErrors(d, rms),
              warns |-> warns1 \o DnaWarnings(d, suspect_ids)
                        \o KillerDnaWarnings(d, killer_id)]

(***************************************************************************)
(* check_secret_triggers                                                   *)
(***************************************************************************)
\* collect_all_secret_ids, flattened (line 344)
AllSecretIdsFlat(d) ==
    UNION {{s.secrets[j].id : j \in 1..Len(s.secrets)} : s \in Range(Suspects(d))}

\* line 340
ValidFlatIds(d, rms) ==
    PhysEvIds(d) \cup Evidence(d).digital_logs \cup Evidence(d).footage \cup rms

\* '.' in req: the identifiers of the model that hold a dot
DottedIds == {"s1.sec1"}

\* lines 354-375 with the self-reference test inside the loop of line 363
SecretErrorsInLoop(d, rms, sid, secret) ==
    ForEach(LAMBDA req :
                IF req \in DottedIds
                THEN <<Msg("Secret: requiresEvidence uses dot-notation",
                           <<sid, secret.id, req>>)>>
                ELSE If(req \notin ValidFlatIds(d, rms),
                        Msg("Secret: requiresEvidence references undeclared ID",
                            <<sid, secret.id, req>>)),
            secret.requiresEvidence)
    \o ForEach(LAMBDA req :
                   If(req \notin AllSecretIdsFlat(d),
                      Msg("Secret: requiresSecrets references unknown secret ID",
                          <<sid, secret.id, req>>))
                   \o If(req = secret.id,
                         Msg("Secret: requiresSecrets references itself",
                             <<sid, secret.id>>)),
               secret.requiresSecrets)
    \o If(secret.minPressure.t = "str",
          Msg("Secret: minPressure must be a number", <<sid, secret.id>>))

\* lines 354-375, the errors of one secret
SecretErrors(d, rms, sid, secret) ==
    ForEach(LAMBDA req :
                IF req \in DottedIds
                THEN <<Msg("Secret: requiresEvidence uses dot-notation",
                           <<sid, secret.id, req>>)>>
                ELSE If(req \notin ValidFlatIds(d, rms),
                        Msg("Secret: requiresEvidence references undeclared ID",
                            <<sid, secret.id, req>>)),
            secret.requiresEvidence)
    \o ForEach(LAMBDA req :
                   If(req \notin AllSecretIdsFlat(d),
                      Msg("Secret: requiresSecrets references unknown secret ID",
                          <<sid, secret.id, req>>)),
               secret.requiresSecrets)
    \o If(secret.id \in Range(secret.requiresSecrets),
          Msg("Secret: requiresSecrets references itself", <<sid, secret.id>>))
    \o If(secret.minPressure.t = "str",
          Msg("Secret: minPressure must be a number", <<sid, secret.id>>))

HighPressure == 80

\* lines 377-379
SecretWarnings(sid, secret) ==
    If(secret.minPressure.t = "num" /\ secret.minPressure.v > HighPressure,
       Msg("Secret: minPressure is very high", <<sid, secret.id, secret.minPressure.v>>))

\* lines 384-387: secret_pressure, a later secret of the same id overwriting
PressureOf(secrets, id) ==
    LET at == {j \in 1..Len(secrets) : secrets[j].id = id}
        last == CHOOSE j \in at : \A k \in at : k <= j
    IN  IF secrets[last].minPressure.t = "absent"
        THEN [t |-> "num", v |-> 0]
        ELSE secrets[last].minPressure

OwnSecretIds(secrets) == {secrets[j].id : j \in 1..Len(secrets)}

\* line 394: sec_mp <= req_mp raises TypeError between a number and a string
OrderRaises(secrets) ==
    \E j \in 1..Len(secrets) :
        \E req \in Range(secrets[j].requiresSecrets) \cap OwnSecretIds(secrets) :
            PressureOf(secrets, secrets[j].id).t # PressureOf(secrets, req).t

\* lines 389-395
OrderWarnings(sid, secrets) ==
    ForEach(LAMBDA secret :
                ForEach(LAMBDA req :
                            IF req \notin OwnSecretIds(secrets)
                            THEN <<>>
                            ELSE LET sec_mp == PressureOf(secrets, secret.id)
                                     req_mp == PressureOf(secrets, req)
                                 IN  If(sec_mp.t = req_mp.t /\ sec_mp.v <= req_mp.v,
                                        Msg("Secret: has equal or lower pressure",
                                            <<sid, secret.id, sec_mp.v, req, req_mp.v>>)),
                        secret.requiresSecrets),
            secrets)

check_secret_triggers(d, rms) ==
    [raised |-> \E s \in Range(Suspects(d)) : OrderRaises(s.secrets),
     errs |-> ForEach(LAMBDA s :
                          ForEach(LAMBDA secret : SecretErrors(d, rms, s.id, secret),
                                  s.secrets),
                      Suspects(d)),
     warns |-> ForEach(LAMBDA s :
                           ForEach(LAMBDA secret : SecretWarnings(s.id, secret), s.secrets),
                       Suspects(d))
               \o ForEach(LAMBDA s : OrderWarnings(s.id, s.secrets), Suspects(d))]

(***************************************************************************)
(* check_assets                                                            *)
(***************************************************************************)
\* check_asset: a path of the model stands for the file it resolves to
AssetErrors(files, asset_path, context) ==
    If(Truthy(asset_path) /\ asset_path \notin files,
       Msg("Resource: not found", <<context, asset_path>>))

check_assets(d, files) ==
    (IF HasKey(d, "victim")
     THEN AssetErrors(files, d.victim.avatar, <<"Victim avatar">>)
     ELSE <<>>)
    \o ForEach(LAMBDA s : AssetErrors(files, s.avatar, <<"Suspect avatar", s.id>>),
               Suspects(d))
    \o ForEach(LAMBDA room :
                   IF room.kind = "dict" /\ room.image # Absent
                   THEN AssetErrors(files, room.image, <<"Room image", room.id>>)
                   ELSE <<>>,
               MapItems(d))

(***************************************************************************)
(* check_narrative_consistency                                             *)
(***************************************************************************)
\* lines 420-421
NarrativeKiller(d) ==
    IF HasKey(d, "solution") /\ d.solution.kind = "dict"
    THEN Get(d.solution.killer, None)
    ELSE None

\* suspects[killer_id].get('secrets', [])
KillerSecrets(d) ==
    LET at == {i \in 1..Len(Suspects(d)) : Suspects(d)[i].id = NarrativeKiller(d)}
    IN  Suspects(d)[CHOOSE i \in at : \A k \in at : k <= i].secrets

\* lines 427-430
AllRequiredEvidence(d) ==
    UNION {UNION {Range(s.secrets[j].requiresEvidence) : j \in 1..Len(s.secrets)} :
               s \in Range(Suspects(d))}

\* phys_discovery.get(murder_loc, [])
MurderDiscovery(d) ==
    LET at == {i \in 1..Len(Evidence(d).physical_discovery) :
                   Evidence(d).physical_discovery[i].room = MurderLoc(d)}
    IN  IF at = {}
        THEN [room |-> MurderLoc(d), kind |-> "list", items |-> <<>>]
        ELSE Evidence(d).physical_discovery[CHOOSE i \in at : TRUE]

\* line 438
KillerKnown(d) ==
    Truthy(NarrativeKiller(d)) /\ NarrativeKiller(d) \in SuspectIds(d)

\* line 441: set(x) raises TypeError when x is not iterable
MurderEvidenceRaises(d) ==
    KillerKnown(d) /\ Truthy(MurderLoc(d)) /\ MurderDiscovery(d).kind = "int"

\* lines 436-448
SmokingGunWarnings(d) ==
    LET murder_evidence == Range(MurderDiscovery(d).items)
        killer_requires ==
            \E j \in 1..Len(KillerSecrets(d)) :
                Range(KillerSecrets(d)[j].requiresEvidence) \cap murder_evidence # {}
    IN  If(KillerKnown(d) /\ Truthy(MurderLoc(d))
               /\ ~killer_requires /\ murder_evidence # {},
           Msg("Narrative: Killer has no secret triggered by murder scene evidence",
               <<NarrativeKiller(d)>>))

\* lines 450-456
ConfessionWarnings(d) ==
    If(KillerKnown(d)
           /\ ~\E j \in 1..Len(KillerSecrets(d)) : KillerSecrets(d)[j].confess,
       Msg("Narrative: Killer has no confession/terminal secret", <<NarrativeKiller(d)>>))

\* lines 465-471: x in wc_text, the empty string being in every text
Mentions(d, x) == x = "" \/ x \in d.win_conditions.mentions

WinConditionWarnings(d) ==
    LET killer_id == NarrativeKiller(d)
        at == {i \in 1..Len(Suspects(d)) : Suspects(d)[i].id = killer_id}
        killer_name == IF at = {} THEN ""
                       ELSE Get(Suspects(d)[CHOOSE i \in at : \A k \in at : k <= i].name, "")
    IN  If(HasKey(d, "win_conditions") /\ ~d.win_conditions.empty /\ Truthy(killer_id)
               /\ ~Mentions(d, killer_id) /\ ~Mentions(d, killer_name),
           Msg("Narrative: win_conditions text doesn't mention killer", <<killer_id>>))

check_narrative_consistency(d) ==
    LET warns1 ==
            ForEach(LAMBDA ev_id :
                        If(ev_id \notin AllRequiredEvidence(d),
                           Msg("Narrative: key_evidence is never required", <<ev_id>>)),
                    KeyEvidence(d))
    IN  IF MurderEvidenceRaises(d)
        THEN [raised |-> TRUE, warns |-> warns1]
        ELSE [raised |-> FALSE,
              warns |-> warns1 \o SmokingGunWarnings(d) \o ConfessionWarnings(d)
                        \o ForEach(LAMBDA s :
                                       If(s.id \notin Evidence(d).initial_police_statements,
                                          Msg("Narrative: no initial police statement",
                                              <<s.id>>)),
                                   Suspects(d))
                        \o WinConditionWarnings(d)]

(***************************************************************************)
(* validate_case: the passes in order.  The document is one that parses    *)
(* (a parse failure ends the run before any check); the parser is not      *)
(* modelled, so the parsed tree is drawn independently of the text.  An    *)
(* exception a pass raises is not caught: the run ends with no report.     *)
(***************************************************************************)
NoSol ==
    [suspect_ids |-> {}, killer_id |-> None, accomplice_id |-> None,
     silent_witness_id |-> None]

NoPrev == [errors |-> <<>>, warnings |-> <<>>]

Record(errs, warns) ==
    /\ errors' = errors \o errs
    /\ warnings' = warnings \o warns

Scanner == <<text, scope_stack, yctx, pend, expected>>

\* line 491
DupScan ==
    /\ pc = "scan"
    /\ Record(check_duplicate_keys_raw([i \in 1..Len(text) |-> Render(text[i])]), <<>>)
    /\ pc' = "schema"
    /\ UNCHANGED <<Scanner, data, fs, run, rooms, sol, prev>>

\* line 503
CheckSchema ==
    /\ pc = "schema"
    /\ Record(check_schema(data).errs, check_schema(data).warns)
    /\ pc' = "map"
    /\ UNCHANGED <<Scanner, data, fs, run, rooms, sol, prev>>

\* line 504
CheckMap ==
    /\ pc = "map"
    /\ \E isolated_order \in Orders(Isolated(data)) :
           LET m == check_map(data, isolated_order)
           IN  /\ Record(m.errs, m.warns)
               /\ rooms' = m.rooms
    /\ pc' = "suspects"
    /\ UNCHANGED <<Scanner, data, fs, run, sol, prev>>

\* line 505
CheckSuspects ==
    /\ pc = "suspects"
    /\ LET c == check_suspects_and_solution(data, rooms)
       IN  /\ Record(c.errs, c.warns)
           /\ sol' = c.sol
    /\ pc' = "evidence"
    /\ UNCHANGED <<Scanner, data, fs, run, rooms, prev>>

\* line 506
CheckEvidence ==
    /\ pc = "evidence"
    /\ \E phys_order \in Orders(PhysEvIds(data)) :
           LET c == check_evidence_ids(data, rooms, sol.suspect_ids, sol.killer_id,
                                       phys_order)
           IN  /\ Record(c.errs, c.warns)
               /\ pc' = IF c.raised THEN "raised" ELSE "secrets"
    /\ UNCHANGED <<Scanner, data, fs, run, rooms, sol, prev>>

\* line 507
CheckSecrets ==
    /\ pc = "secrets"
    /\ LET c == check_secret_triggers(data, rooms)
       IN  /\ Record(c.errs, c.warns)
           /\ pc' = IF c.raised THEN "raised" ELSE "assets"
    /\ UNCHANGED <<Scanner, data, fs, run, rooms, sol, prev>>

\* line 508
CheckAssets ==
    /\ pc = "assets"
    /\ Record(check_assets(data, fs), <<>>)
    /\ pc' = "narrative"
    /\ UNCHANGED <<Scanner, data, fs, run, rooms, sol, prev>>

\* line 509
CheckNarrative ==
    /\ pc = "narrative"
    /\ LET c == check_narrative_consistency(data)
       IN  /\ Record(<<>>, c.warns)
           /\ pc' = IF c.raised THEN "raised" ELSE "report"
    /\ UNCHANGED <<Scanner, data, fs, run, rooms, sol, prev>>

\* lines 511-532: the report prints errors and warnings as they stand
Report ==
    /\ pc = "report"
    /\ pc' = "done"
    /\ UNCHANGED <<Scanner, data, fs, run, errors, warnings, rooms, sol, prev>>

\* the verifier is run a second time on the same text, document and filesystem
RunAgain ==
    /\ pc = "done"
    /\ run = 1
    /\ run' = 2
    /\ prev' = [errors |-> errors, warnings |-> warnings]
    /\ errors' = <<>>
    /\ warnings' = <<>>
    /\ rooms' = {}
    /\ sol' = NoSol
    /\ pc' = "scan"
    /\ UNCHANGED <<Scanner, data, fs>>

Next ==
    \/ DupScan
    \/ CheckSchema
    \/ CheckMap
    \/ CheckSuspects
    \/ CheckEvidence
    \/ CheckSecrets
    \/ CheckAssets
    \/ CheckNarrative
    \/ Report
    \/ RunAgain

(***************************************************************************)
(* Documents.                                                              *)
(***************************************************************************)
RoomNames == <<"r1", "r2", "r3", "r4">>

SuspectNames == <<"s1", "s2", "s3">>

Room(id, kind, connects) ==
    [id |-> id, kind |-> kind, connects |-> connects, image |-> Absent,
     interactables |-> <<>>]

Secret(id, requiresSecrets, minPressure) ==
    [id |-> id, confess |-> FALSE, requiresEvidence |-> <<>>,
     requiresSecrets |-> requiresSecrets, minPressure |-> minPressure]

Suspect(id, isGuilty, isAccomplice, isSilentWitness, secrets) ==
    [id |-> id, name |-> id, isGuilty |-> isGuilty, isAccomplice |-> isAccomplice,
     isSilentWitness |-> isSilentWitness, currentLocation |-> Absent,
     alibi |-> "alibi", resistance_level |-> Absent, avatar |-> Absent,
     secrets |-> secrets]

Solution(kind, killer, accomplice, silent_witness) ==
    [kind |-> kind, killer |-> killer, accomplice |-> accomplice,
     silent_witness |-> silent_witness, key_evidence |-> <<>>]

Victim == [id |-> "vic", name |-> "vic", avatar |-> Absent]

\* a document with every required key, no room, no suspect and no evidence
BaseDoc ==
    [absent |-> {"point_system", "win_conditions"},
     map |-> <<>>,
     murderLocation |-> Absent,
     suspects |-> <<>>,
     solution |-> Solution("dict", Absent, Absent, Absent),
     evidence |-> EmptyEvidence,
     victim |-> Victim,
     point_system |-> {},
     win_conditions |-> [empty |-> TRUE, mentions |-> {}]]

SeqsUpTo(S, n) == UNION {[1..k -> S] : k \in 0..n}

\* the connects_to lists of n rooms, holding at most budget entries in all
RECURSIVE ConnectLists(_, _, _)
ConnectLists(n, budget, targets) ==
    IF n = 0
    THEN {<<>>}
    ELSE UNION {{<<c>> \o rest : rest \in ConnectLists(n - 1, budget - Len(c), targets)} :
                   c \in SeqsUpTo(targets, budget)}

\* the maps of n rooms r1..rn, in that order; "zz" is no room
MapsOf(n) ==
    {[i \in 1..n |-> Room(RoomNames[i], kind, cl[i])] :
        kind \in {"dict", "list"},
        cl \in ConnectLists(n, MaxEdges, {RoomNames[i] : i \in 1..n} \cup {"zz"})}

Idle ==
    /\ text = <<>>
    /\ scope_stack = <<RootScope>>
    /\ yctx = <<>>
    /\ pend = TopPend
    /\ expected = <<>>
    /\ fs = {}
    /\ run = 1
    /\ errors = <<>>
    /\ warnings = <<>>
    /\ rooms = {}
    /\ sol = NoSol
    /\ prev = NoPrev

(***************************************************************************)
(* check_map on every map of the bounds, present or not, with a murder     *)
(* location that is missing, a room or no room.                            *)
(***************************************************************************)
InitMap ==
    /\ Idle
    /\ pc = "map"
    /\ \E n \in 0..MaxRooms, ab \in {{}, {"map"}}, ml \in {Absent, "r1", "zz"} :
        \E m \in MapsOf(n) :
           /\ ab = {"map"} => m = <<>>
           /\ data = [BaseDoc EXCEPT !.map = m, !.absent = @ \cup ab,
                                     !.murderLocation = ml]

NextMap == CheckMap

SpecMap == InitMap /\ [][NextMap]_vars

(***************************************************************************)
(* check_suspects_and_solution on every list of suspects of the bounds,    *)
(* each flag missing, true or false, and every solution: missing, a bare   *)
(* id, or a mapping whose roles are missing, 'none', a suspect or no       *)
(* suspect ("ghost").                                                      *)
(***************************************************************************)
Flags == {Absent, True, False}

SuspectsOf(n) ==
    {[i \in 1..n |-> Suspect(SuspectNames[i], f[i][1], f[i][2], f[i][3], <<>>)] :
        f \in [1..n -> Flags \X Flags \X Flags]}

RoleValues == {Absent, "none", "s1", "ghost"}

\* accomplice and silent_witness together: each takes every value of RoleValues
RolePairs ==
    {<<Absent, "none">>, <<"none", Absent>>, <<"s1", "ghost">>, <<"ghost", "s1">>,
     <<"s1", "s1">>}

Solutions ==
    {Solution("dict", k, aw[1], aw[2]) : k \in RoleValues, aw \in RolePairs}
    \cup {Solution("bare", k, Absent, Absent) : k \in {"none", "s1", "ghost"}}

InitSuspects ==
    /\ Idle
    /\ pc = "suspects"
    /\ \E n \in 0..MaxSuspects, so \in Solutions, ab \in {{}, {"solution"}} :
        \E ss \in SuspectsOf(n) :
           /\ ab = {"solution"} => so = Solution("dict", Absent, "none", Absent)
           /\ data = [BaseDoc EXCEPT !.suspects = ss, !.solution = so,
                                     !.absent = @ \cup ab]

NextSuspects == CheckSuspects

SpecSuspects == InitSuspects /\ [][NextSuspects]_vars

(***************************************************************************)
(* check_secret_triggers on two suspects: s1 with up to two secrets, each  *)
(* requiring up to MaxReq secrets (its own, another of s1, one of s2, or   *)
(* an unknown one), and s2 with at most one secret.                        *)
(***************************************************************************)
Pressures == {[t |-> "absent", v |-> 0], [t |-> "num", v |-> 10], [t |-> "num", v |-> 90]}

SecretIds == {"k1", "k2", "k3", "kx"}

SecretsOf(ids) ==
    {[i \in 1..Len(ids) |-> Secret(ids[i], rq[i], mp[i])] :
        rq \in [1..Len(ids) -> SeqsUpTo(SecretIds, MaxReq)],
        mp \in [1..Len(ids) -> Pressures]}

FirstIds == {<<>>, <<"k1">>, <<"k1", "k2">>}

OtherSecrets ==
    {<<>>} \cup {<<Secret(id, rq, [t |-> "num", v |-> mp])>> :
                    id \in {"k3"}, rq \in {<<>>, <<"k3">>}, mp \in {10, 90}}
           \cup {<<Secret("k1", <<>>, [t |-> "num", v |-> mp])>> : mp \in {10, 90}}

InitSecrets ==
    /\ Idle
    /\ pc = "secrets"
    /\ \E ids \in FirstIds, s2 \in OtherSecrets :
        \E s1 \in SecretsOf(ids) :
           data = [BaseDoc EXCEPT
                       !.suspects = <<Suspect("s1", True, Absent, Absent, s1),
                                      Suspect("s2", Absent, Absent, Absent, s2)>>,
                       !.solution = Solution("dict", "s1", Absent, Absent)]

NextSecrets == CheckSecrets

SpecSecrets == InitSecrets /\ [][NextSecrets]_vars

(***************************************************************************)
(* The whole run, twice, on documents with rooms that no connection        *)
(* reaches, physical evidence found nowhere, a physical_discovery or dna   *)
(* entry for the murder location that may not be a list, and a victim who  *)
(* may have no name.                                                       *)
(***************************************************************************)
Line(ind, key, val) == LineOf(ind, FALSE, "key", key, FALSE, val)

RunTexts == {<<>>, <<Line(0, "a", "scalar"), Line(0, "a", "scalar")>>}

\* n rooms, none connected
Unconnected(n) == [i \in 1..n |-> Room(RoomNames[i], "dict", <<>>)]

RunMaps == {Unconnected(1), Unconnected(MaxRooms)}

\* what the document holds for the room r1: nothing, a list, or no list
\* (a string iterates as its characters, a number does not iterate)
Entries ==
    {<<>>,
     <<[room |-> "r1", kind |-> "list", items |-> <<"e1">>]>>,
     <<[room |-> "r1", kind |-> "str", items |-> <<"e">>]>>,
     <<[room |-> "r1", kind |-> "int", items |-> <<>>]>>}

RunSuspects ==
    <<Suspect("s1", True, Absent, Absent,
              <<[Secret("confession", <<>>, [t |-> "absent", v |-> 0])
                     EXCEPT !.confess = TRUE, !.requiresEvidence = <<"e1">>]>>)>>

Init ==
    /\ scope_stack = <<RootScope>>
    /\ yctx = <<>>
    /\ pend = TopPend
    /\ expected = <<>>
    /\ run = 1
    /\ errors = <<>>
    /\ warnings = <<>>
    /\ rooms = {}
    /\ sol = NoSol
    /\ prev = NoPrev
    /\ pc = "scan"
    /\ text \in RunTexts
    /\ fs \in {{}, {"/vic.png"}}
    /\ \E m \in RunMaps, ml \in {Absent, "r1"}, pe \in {<<>>, <<"e1", "e2">>},
          pd \in Entries, dna \in Entries \ {<<[room |-> "r1", kind |-> "str", items |-> <<"e">>]>>},
          vn \in {Absent, "vic"} :
           data = [BaseDoc EXCEPT
                       !.map = m,
                       !.murderLocation = ml,
                       !.suspects = RunSuspects,
                       !.solution = Solution("dict", "s1", Absent, Absent),
                       !.evidence = [EmptyEvidence EXCEPT
                                         !.physical_evidence = pe,
                                         !.physical_discovery = pd,
                                         !.dna = dna,
                                         !.initial_police_statements = {"s1"}],
                       !.victim = [Victim EXCEPT !.name = vn, !.avatar = "/vic.png"]]

Spec == Init /\ [][Next]_vars

(***************************************************************************)
(* Properties.                                                             *)
(***************************************************************************)
\* how many times a message was recorded
Count(msgs, m) ==
    Cardinality({i \in 1..Len(msgs) : msgs[i].kind = m.kind /\ msgs[i].args = m.args})

Recorded(msgs, m) == Count(msgs, m) > 0

\* check_map, check_suspects_and_solution, check_secret_triggers have returned
MapChecked == pc = "suspects"

SuspectsChecked == pc = "evidence"

SecretsChecked == pc = "assets"

\* C1: two runs of the verifier on the same text, document and filesystem
\* record the same errors and the same warnings, in the same order.
C1_SameMessagesOnRerun ==
    (run = 2 /\ pc = "done") =>
        (errors = prev.errors /\ warnings = prev.warnings)

\* the entries of the map as the author wrote them
Declared(d) == {d.map[i].id : i \in 1..Len(d.map)}

Declares(d, a, b) ==
    \E i \in 1..Len(d.map) : d.map[i].id = a /\ b \in Range(d.map[i].connects)

\* C2: when room A declares a connection to room B and B declares none to
\* A, check_map records exactly one one-way warning naming (A, B) and none
\* naming (B, A).
C2_ExactlyOneOneWay ==
    (MapChecked /\ HasKey(data, "map")) =>
        \A a \in Declared(data), b \in Declared(data) :
            (Declares(data, a, b) /\ ~Declares(data, b, a)) =>
                /\ Count(warnings, Msg("Map: one-way", <<a, b>>)) = 1
                /\ Count(warnings, Msg("Map: one-way", <<b, a>>)) = 0

\* C3: a key that repeats a sibling key of its mapping block is reported
\* with its own line number and the line number of the first occurrence of
\* that key in the block.
C3_DuplicateReported ==
    \A i \in 1..Len(expected) : Recorded(errors, expected[i])

\* C4: a text in which every mapping block has pairwise distinct sibling
\* keys records no duplicate-key error.
C4_NoFalseDuplicate == expected = <<>> => errors = <<>>

SelfReference(sid, secret) ==
    Msg("Secret: requiresSecrets references itself", <<sid, secret.id>>)

\* C5: a secret whose requiresSecrets lists the secret's own id gets exactly
\* one self-reference error, however often the id is listed (the ids of a
\* suspect's secrets are distinct).
C5_OneSelfReference ==
    SecretsChecked =>
        \A i \in 1..Len(data.suspects) :
            \A j \in 1..Len(data.suspects[i].secrets) :
                LET secret == data.suspects[i].secrets[j]
                IN  secret.id \in Range(secret.requiresSecrets) =>
                        Count(errors, SelfReference(data.suspects[i].id, secret)) = 1

\* a secret of s1 that lists its own id twice has been checked
C5_ListedTwice ==
    /\ SecretsChecked
    /\ \E j \in 1..Len(data.suspects[1].secrets) :
           LET secret == data.suspects[1].secrets[j]
           IN  /\ secret.requiresSecrets = <<secret.id, secret.id>>
               /\ Recorded(errors, SelfReference("s1", secret))

\* the roles of the solution: the name the messages use, and the role's id
Roles(d) ==
    {<<"Killer", KillerId(d)>>, <<"Accomplice", AccompliceId(d)>>,
     <<"Silent witness", SilentWitnessId(d)>>}

\* the role is 'none' explicitly, by omission, or because the solution is a
\* bare id
Sentinel(d, field) ==
    \/ ~HasKey(d, "solution")
    \/ d.solution.kind = "bare"
    \/ d.solution[field] \in {Absent, "none"}

Unresolved(role) ==
    {i \in 1..Len(errors) :
        /\ errors[i].kind = "Solution: not found in suspects list"
        /\ errors[i].args[1] = role}

\* C6: a role whose id is no declared suspect gets an error naming the id and
\* the role, except that an accomplice or silent witness of 'none' gets
\* none; a role whose id is a declared suspect gets none.
C6_RoleResolution ==
    SuspectsChecked =>
        /\ \A r \in Roles(data) :
              /\ (r[2] \notin SuspectIds(data) /\ (r[1] = "Killer" \/ r[2] # "none")) =>
                    Recorded(errors, Msg("Solution: not found in suspects list", r))
              /\ r[2] \in SuspectIds(data) => Unresolved(r[1]) = {}
        /\ Sentinel(data, "accomplice") => Unresolved("Accomplice") = {}
        /\ Sentinel(data, "silent_witness") => Unresolved("Silent witness") = {}

\* a killer who is no suspect, beside an accomplice of 'none' and a silent
\* witness left out, has been reported
C6_GhostKiller ==
    /\ SuspectsChecked
    /\ HasKey(data, "solution")
    /\ data.solution.kind = "dict"
    /\ data.solution.killer = "ghost"
    /\ data.solution.accomplice = "none"
    /\ data.solution.silent_witness = Absent
    /\ data.suspects # <<>>
    /\ Recorded(errors, Msg("Solution: not found in suspects list", <<"Killer", "ghost">>))

\* a document whose physical_discovery or dna holds an entry that is no list
Malformed(d) ==
    \E e \in Range(d.evidence.physical_discovery) \cup Range(d.evidence.dna) :
        e.kind # "list"

\* C7: a run on a document with a malformed physical_discovery or dna entry
\* (and a named victim) is not aborted by any pass.
C7_MalformedIsNotFatal ==
    (Malformed(data) /\ data.victim.name # Absent) => pc # "raised"

\* the flags of a suspect: the field, the role the messages name, its id
FlagRoles(d) ==
    {<<"isGuilty", "killer", KillerId(d)>>,
     <<"isAccomplice", "accomplice", AccompliceId(d)>>,
     <<"isSilentWitness", "silent_witness", SilentWitnessId(d)>>}

\* C8: a suspect gets a flag error for a role exactly when the flag's truth
\* differs from the suspect holding the role: the holder's flag is false or
\* missing, or the flag of a suspect who is not the holder is true.
C8_FlagMismatch ==
    SuspectsChecked =>
        \A i \in 1..Len(data.suspects) : \A f \in FlagRoles(data) :
            LET suspect == data.suspects[i]
                holder == suspect.id = f[3]
                flag == suspect[f[1]] = True
            IN  /\ (holder /\ ~flag) <=>
                       Recorded(errors, Msg("Suspect: is solution role but flag is not true",
                                            <<suspect.id, f[2]>>))
                /\ (~holder /\ flag) <=>
                       Recorded(errors, Msg("Suspect: flag is true but is not the solution role",
                                            <<suspect.id, f[2]>>))

\* the killer s1 with no isGuilty flag, and s2 flagged as an accomplice that
\* the solution does not name, have been reported
C8_BothDirections ==
    /\ SuspectsChecked
    /\ Len(data.suspects) = 2
    /\ KillerId(data) = "s1"
    /\ data.suspects[1].isGuilty = Absent
    /\ data.suspects[2].isAccomplice = True
    /\ Recorded(errors, Msg("Suspect: is solution role but flag is not true",
                            <<"s1", "killer">>))
    /\ Recorded(errors, Msg("Suspect: flag is true but is not the solution role",
                            <<"s2", "accomplice">>))

\* C9: check_map records the murder-location error exactly when the
\* designated murder location is no declared room, also when the document
\* has no map.
C9_MurderLocationChecked ==
    (MapChecked /\ Truthy(data.murderLocation)) =>
        (data.murderLocation \notin MapRooms(data)
            <=> \E i \in 1..Len(errors) :
                    errors[i].kind = "Map: murderLocation not found in map rooms")

\* the lines an error names, and the lines the open scopes remember
ReportedLines == {errors[i].args[1] : i \in 1..Len(errors)}

SeenLines ==
    UNION {{e[2] : e \in scope_stack[i].seen} : i \in 1..Len(scope_stack)}

FlowValued(d) == d.kind = "key" /\ d.val = "flow"

\* C10 as the specification states it: a key whose value is a flow mapping
\* (a: {x: 1}) is neither remembered by a scope nor reported.
C10_FlowValueIgnored ==
    \A i \in 1..Len(text) :
        FlowValued(text[i]) => i \notin ReportedLines \cup SeenLines

\* C10: a line whose key text itself begins with '{' (the list item
\* - {a: 1}) is neither remembered by a scope nor reported; a key whose value
\* is a flow mapping is tracked as any other key: once read, its line is
\* remembered by a scope or reported.
C10_FlowItemIgnored ==
    /\ \A i \in 1..Len(text) :
          text[i].kind = "flowitem" => i \notin ReportedLines \cup SeenLines
    /\ (text # <<>> /\ FlowValued(text[Len(text)])) =>
          Len(text) \in ReportedLines \cup SeenLines

\* two flow-mapping items of one list have been read, and the last line, a
\* key with a flow-mapping value, is reported as a duplicate
C10_FlowLinesRead ==
    /\ \E i \in 1..Len(text) - 1 :
          text[i].kind = "flowitem" /\ text[i + 1].kind = "flowitem"
    /\ FlowValued(text[Len(text)])
    /\ Len(text) \in ReportedLines

\* the rooms that a path of declared connections between declared rooms
\* leads to from the rooms of S
RECURSIVE Closure(_, _)
Closure(d, S) ==
    LET more == S \cup {b \in Declared(d) : \E a \in S : Declares(d, a, b)}
    IN  IF more = S THEN S ELSE Closure(d, more)

Unreachable(room, start) == Msg("Map: unreachable", <<room, start>>)

UnreachableWarnings ==
    {i \in 1..Len(warnings) : warnings[i].kind = "Map: unreachable"}

\* C11: _dfs_reachable returns exactly the rooms that declared connections
\* between declared rooms reach from the first declared room; check_map
\* records one unreachable warning for each declared room outside that set
\* and none for a room inside it, and none at all for a map without rooms.
C11_Connectivity ==
    (MapChecked /\ HasKey(data, "map")) =>
        IF data.map = <<>>
        THEN UnreachableWarnings = {}
        ELSE LET start == data.map[1].id
                 reached == Closure(data, {start})
             IN  /\ dfs_reachable(start, MapAdj(data)) = reached
                 /\ \A room \in Declared(data) :
                       Count(warnings, Unreachable(room, start)) =
                           IF room \in reached THEN 0 ELSE 1
                 /\ Cardinality(UnreachableWarnings) =
                       Cardinality(Declared(data) \ reached)

\* a map with a self-loop and a cycle (r1 to r1 and r2, r2 back to r1) and a
\* third room no connection leads to has been checked
C11_CycleAndStranded ==
    /\ MapChecked
    /\ HasKey(data, "map")
    /\ Len(data.map) = 3
    /\ Declares(data, "r1", "r1")
    /\ Declares(data, "r1", "r2")
    /\ Declares(data, "r2", "r1")
    /\ warnings = <<Unreachable("r3", "r1")>>

\* the minPressure of a secret, a missing one counted as 0
Threshold(secret) ==
    IF secret.minPressure.t = "absent" THEN 0 ELSE secret.minPressure.v

\* where the document declares a secret of that id: the suspect's and the
\* secret's position
Declarers(d, id) ==
    UNION {{<<i, j>> : j \in {k \in 1..Len(d.suspects[i].secrets) :
                                  d.suspects[i].secrets[k].id = id}} :
              i \in 1..Len(d.suspects)}

\* C12: for a secret S that lists a secret P in requiresSecrets (P the one
\* secret of that id in the document), a warning for (S, P) is recorded
\* exactly when the minPressure of S is not strictly greater than that of
\* P, whichever suspect declares P.
C12_PressureOrdering ==
    SecretsChecked =>
        \A i \in 1..Len(data.suspects) :
            \A S \in Range(data.suspects[i].secrets) :
                \A req \in Range(S.requiresSecrets) :
                    Cardinality(Declarers(data, req)) = 1 =>
                        LET at == CHOOSE ij \in Declarers(data, req) : TRUE
                            P == data.suspects[at[1]].secrets[at[2]]
                        IN  Threshold(S) <= Threshold(P)
                                <=> Recorded(warnings,
                                             Msg("Secret: has equal or lower pressure",
                                                 <<data.suspects[i].id, S.id, Threshold(S),
                                                   req, Threshold(P)>>))

Indentations == [i \in 1..Len(scope_stack) |-> scope_stack[i].indent]

====
